---- MODULE Spec2Model ----
(***************************************************************************)
(* A model of the two programs of "chapter 2/bfs ":                        *)
(*   bfs.py            the chess-piece shortest-path search on the 8x8     *)
(*                     board (class BFSVisualizer and its run loop);       *)
(*   tree_diameter.py  the user-drawn graph and its double-BFS diameter.   *)
(* A square is the pair <<x, y>>; Python's None is the empty tuple.        *)
(* Rendering state (render_pos, last_bfs_step_time, the pygame surfaces)   *)
(* is not part of the model; the pacing of the run loop is the free        *)
(* interleaving of Tick with the event actions.                            *)
(***************************************************************************)
EXTENDS Integers, Sequences, FiniteSets, TLC

VARIABLES
    \* ---- bfs.py: BFSVisualizer fields
    start_pos, goal_pos, current_piece,
    running_bfs, path_found, animating_path,
    queue, visited, parents, edges_explored, current_node,
    shortest_path, anim_index, anim_progress,
    \* the exception the last call of a BFSVisualizer method ended with
    exc,
    \* ---- observation of the grid search (history variables, not program state)
    steps, probe,
    \* ---- observation of a pass of bfs (history variable, not program state)
    passlog,
    \* ---- tree_diameter.py: module globals and the fields of the Node objects
    nodes, edges, Neighbours, Visited, Distance,
    selected_node, long_start, long_end,
    \* ---- tree_diameter.py: the position in find_diameter and its locals
    pc, qeue, far_node, bfs_start, fd_seed, fd_start, fd_ret

gridVars == <<start_pos, goal_pos, current_piece, running_bfs, path_found,
              animating_path, queue, visited, parents, edges_explored,
              current_node, shortest_path, anim_index, anim_progress>>

obsVars == <<steps, probe>>

treeVars == <<nodes, edges, Neighbours, Visited, Distance, selected_node,
              long_start, long_end, pc, qeue, far_node, bfs_start, fd_seed,
              fd_start, fd_ret>>

vars == <<gridVars, exc, obsVars, treeVars, passlog>>

None == <<>>

\* ------------------------------------------------------------------------
\* bfs.py: constants and movement functions
\* ------------------------------------------------------------------------
BOARD_SIZE == 8

\* update_animation adds speed = 0.05 to anim_progress and compares it with
\* 1.0: anim_progress is counted in units of speed, and twenty additions of
\* 0.05 are the first to reach 1.0 in double arithmetic.
ANIM_STEPS == 20

KNIGHT == 0
KING == 1
ROOK == 2
BISHOP == 3
QUEEN == 4
PieceType == {KNIGHT, KING, ROOK, BISHOP, QUEEN}

Squares == (0 .. BOARD_SIZE - 1) \X (0 .. BOARD_SIZE - 1)

\* KNIGHT_MOVES with its fifth offset mistyped
KNIGHT_MOVES_Mistyped ==
    << <<2, 1>>, <<2, -1>>, <<-2, 1>>, <<-2, -1>>,
       <<1, 1>>, <<1, -2>>, <<-1, 2>>, <<-1, -2>> >>

KNIGHT_MOVES ==
    << <<2, 1>>, <<2, -1>>, <<-2, 1>>, <<-2, -1>>,
       <<1, 2>>, <<1, -2>>, <<-1, 2>>, <<-1, -2>> >>

is_on_board(p) ==
    /\ 0 <= p[1] /\ p[1] < BOARD_SIZE
    /\ 0 <= p[2] /\ p[2] < BOARD_SIZE

\* the targets of the offsets, in the order of the offsets, kept when on board
OffsetMoves(p, offs) ==
    SelectSeq([i \in 1 .. Len(offs) |-> <<p[1] + offs[i][1], p[2] + offs[i][2]>>],
              is_on_board)

get_knight_moves(p) == OffsetMoves(p, KNIGHT_MOVES)

\* for dx in range(-1, 2): for dy in range(-1, 2): skip (0, 0)
KingOffsets ==
    SelectSeq([i \in 1 .. 9 |-> <<((i - 1) \div 3) - 1, ((i - 1) % 3) - 1>>],
              LAMBDA d : ~(d[1] = 0 /\ d[2] = 0))

\* get_king_moves without its test for dx == 0 and dy == 0
get_king_moves_WithSelf(p) ==
    OffsetMoves(p, [i \in 1 .. 9 |-> <<((i - 1) \div 3) - 1, ((i - 1) % 3) - 1>>])

get_king_moves(p) == OffsetMoves(p, KingOffsets)

\* the while loop of sliding_moves for one direction, from (nx, ny)
RECURSIVE Ray(_, _, _, _)
Ray(nx, ny, dx, dy) ==
    IF is_on_board(<<nx, ny>>)
    THEN << <<nx, ny>> >> \o Ray(nx + dx, ny + dy, dx, dy)
    ELSE << >>

RECURSIVE SlideFrom(_, _, _)
SlideFrom(p, dirs, i) ==
    IF i > Len(dirs) THEN << >>
    ELSE Ray(p[1] + dirs[i][1], p[2] + dirs[i][2], dirs[i][1], dirs[i][2])
         \o SlideFrom(p, dirs, i + 1)

\* sliding_moves without its while loop: one square in each direction
sliding_moves_NoLoop(p, dirs) == OffsetMoves(p, dirs)

sliding_moves(p, dirs) == SlideFrom(p, dirs, 1)

RookDirs == << <<1, 0>>, <<-1, 0>>, <<0, 1>>, <<0, -1>> >>

\* the directions of get_bishop_moves cut down to the first one
BishopDirs_OneWay == << <<1, 1>> >>

BishopDirs == << <<1, 1>>, <<1, -1>>, <<-1, 1>>, <<-1, -1>> >>
QueenDirs == RookDirs \o BishopDirs

get_rook_moves(p) == sliding_moves(p, RookDirs)
get_bishop_moves(p) == sliding_moves(p, BishopDirs)
get_queen_moves(p) == sliding_moves(p, QueenDirs)

move_func(piece, p) ==
    CASE piece = KNIGHT -> get_knight_moves(p)
      [] piece = KING   -> get_king_moves(p)
      [] piece = ROOK   -> get_rook_moves(p)
      [] piece = BISHOP -> get_bishop_moves(p)
      [] piece = QUEEN  -> get_queen_moves(p)

\* a function as an explicit table, computed once
Table(f) == f @@ << >>

\* MOVE_FUNCTIONS[piece](p)
MOVE_FUNCTIONS ==
    Table([piece \in PieceType |-> Table([p \in Squares |-> move_func(piece, p)])])

\* ------------------------------------------------------------------------
\* bfs.py: BFSVisualizer
\* ------------------------------------------------------------------------
GridInit ==
    /\ start_pos = None
    /\ goal_pos = None
    /\ current_piece = KNIGHT
    /\ running_bfs = FALSE
    /\ path_found = FALSE
    /\ animating_path = FALSE
    /\ queue = << >>
    /\ visited = {}
    /\ parents = << >>
    /\ edges_explored = << >>
    /\ current_node = None
    /\ shortest_path = << >>
    /\ anim_index = 0
    /\ anim_progress = 0

\* reset_state, but for start_pos and goal_pos, which its callers set
ResetRun ==
    /\ running_bfs' = FALSE
    /\ path_found' = FALSE
    /\ animating_path' = FALSE
    /\ queue' = << >>
    /\ visited' = {}
    /\ parents' = << >>
    /\ edges_explored' = << >>
    /\ shortest_path' = << >>
    /\ anim_index' = 0
    /\ anim_progress' = 0
    /\ current_node' = None

reset_state ==
    /\ start_pos' = None
    /\ goal_pos' = None
    /\ ResetRun

\* start_bfs without visited.add(self.start_pos)
start_bfs_Unmarked ==
    IF start_pos = None \/ goal_pos = None \/ running_bfs
    THEN UNCHANGED gridVars
    ELSE /\ queue' = <<start_pos>>
         /\ visited' = {}
         /\ parents' = (start_pos :> None)
         /\ edges_explored' = << >>
         /\ shortest_path' = << >>
         /\ path_found' = FALSE
         /\ animating_path' = FALSE
         /\ current_node' = None
         /\ running_bfs' = TRUE
         /\ UNCHANGED <<start_pos, goal_pos, current_piece, anim_index, anim_progress>>

\* start_bfs without visited.clear() and parents.clear()
start_bfs_NoClear ==
    IF start_pos = None \/ goal_pos = None \/ running_bfs
    THEN UNCHANGED gridVars
    ELSE /\ queue' = <<start_pos>>
         /\ visited' = visited \cup {start_pos}
         /\ parents' = (start_pos :> None) @@ parents
         /\ edges_explored' = << >>
         /\ shortest_path' = << >>
         /\ path_found' = FALSE
         /\ animating_path' = FALSE
         /\ current_node' = None
         /\ running_bfs' = TRUE
         /\ UNCHANGED <<start_pos, goal_pos, current_piece, anim_index, anim_progress>>

\* start_bfs: returns at once unless both squares are set and no search runs
start_bfs ==
    IF start_pos = None \/ goal_pos = None \/ running_bfs
    THEN UNCHANGED gridVars
    ELSE /\ queue' = <<start_pos>>
         /\ visited' = {start_pos}
         /\ parents' = (start_pos :> None)
         /\ edges_explored' = << >>
         /\ shortest_path' = << >>
         /\ path_found' = FALSE
         /\ animating_path' = FALSE
         /\ current_node' = None
         /\ running_bfs' = TRUE
         /\ UNCHANGED <<start_pos, goal_pos, current_piece, anim_index, anim_progress>>

\* parents.get(curr): None for a square that is no key
ParentsGet(par, curr) == IF curr \in DOMAIN par THEN par[curr] ELSE None

\* the while loop of reconstruct_path: temp_path from curr on (goal first)
RECURSIVE Backtrack(_, _, _)
Backtrack(par, start, curr) ==
    IF curr = None THEN << >>
    ELSE IF curr = start THEN <<curr>>
    ELSE <<curr>> \o Backtrack(par, start, ParentsGet(par, curr))

Reverse(s) == [i \in 1 .. Len(s) |-> s[Len(s) + 1 - i]]

\* reconstruct_path: the value it leaves in shortest_path
reconstruct_path(par, start, goal) == Reverse(Backtrack(par, start, goal))

\* the for loop of step_bfs with parents[neighbor] = neighbor
RECURSIVE ExpandLoop_SelfParent(_, _, _, _)
ExpandLoop_SelfParent(neighbors, i, current, st) ==
    IF i > Len(neighbors) THEN st
    ELSE LET neighbor == neighbors[i] IN
         IF neighbor \notin st.visited
         THEN ExpandLoop_SelfParent(neighbors, i + 1, current,
                  [visited |-> st.visited \cup {neighbor},
                   parents |-> (neighbor :> neighbor) @@ st.parents,
                   queue   |-> Append(st.queue, neighbor),
                   edges   |-> Append(st.edges, <<current, neighbor>>)])
         ELSE ExpandLoop_SelfParent(neighbors, i + 1, current, st)

\* the for loop of step_bfs with appendleft for append: a stack, not a queue
RECURSIVE ExpandLoop_Stack(_, _, _, _)
ExpandLoop_Stack(neighbors, i, current, st) ==
    IF i > Len(neighbors) THEN st
    ELSE LET neighbor == neighbors[i] IN
         IF neighbor \notin st.visited
         THEN ExpandLoop_Stack(neighbors, i + 1, current,
                  [visited |-> st.visited \cup {neighbor},
                   parents |-> (neighbor :> current) @@ st.parents,
                   queue   |-> <<neighbor>> \o st.queue,
                   edges   |-> Append(st.edges, <<current, neighbor>>)])
         ELSE ExpandLoop_Stack(neighbors, i + 1, current, st)

\* the for loop of step_bfs over neighbors[i ..]; st holds the four
\* containers it updates
RECURSIVE ExpandLoop(_, _, _, _)
ExpandLoop(neighbors, i, current, st) ==
    IF i > Len(neighbors) THEN st
    ELSE LET neighbor == neighbors[i] IN
         IF neighbor \notin st.visited
         THEN ExpandLoop(neighbors, i + 1, current,
                  [visited |-> st.visited \cup {neighbor},
                   parents |-> (neighbor :> current) @@ st.parents,
                   queue   |-> Append(st.queue, neighbor),
                   edges   |-> Append(st.edges, <<current, neighbor>>)])
         ELSE ExpandLoop(neighbors, i + 1, current, st)

step_bfs ==
    IF queue = << >>
    THEN /\ running_bfs' = FALSE
         /\ UNCHANGED <<start_pos, goal_pos, current_piece, path_found,
                        animating_path, queue, visited, parents, edges_explored,
                        current_node, shortest_path, anim_index, anim_progress>>
    ELSE LET current == Head(queue) IN
         /\ current_node' = current
         /\ IF current = goal_pos
            THEN /\ queue' = Tail(queue)
                 /\ shortest_path' = reconstruct_path(parents, start_pos, goal_pos)
                 /\ running_bfs' = FALSE
                 /\ path_found' = TRUE
                 /\ animating_path' = TRUE
                 /\ anim_index' = 0
                 /\ anim_progress' = 0
                 /\ UNCHANGED <<visited, parents, edges_explored>>
            ELSE LET st == ExpandLoop(MOVE_FUNCTIONS[current_piece][current], 1, current,
                                      [visited |-> visited, parents |-> parents,
                                       queue |-> Tail(queue), edges |-> edges_explored])
                 IN /\ visited' = st.visited
                    /\ parents' = st.parents
                    /\ queue' = st.queue
                    /\ edges_explored' = st.edges
                    /\ UNCHANGED <<running_bfs, path_found, animating_path,
                                   shortest_path, anim_index, anim_progress>>
         /\ UNCHANGED <<start_pos, goal_pos, current_piece>>

update_animation ==
    IF shortest_path = << >>
    THEN UNCHANGED gridVars
    ELSE IF anim_index >= Len(shortest_path) - 1
    THEN /\ animating_path' = FALSE
         /\ UNCHANGED <<start_pos, goal_pos, current_piece, running_bfs, path_found,
                        queue, visited, parents, edges_explored, current_node,
                        shortest_path, anim_index, anim_progress>>
    ELSE /\ IF anim_progress + 1 >= ANIM_STEPS
            THEN anim_progress' = 0 /\ anim_index' = anim_index + 1
            ELSE anim_progress' = anim_progress + 1 /\ anim_index' = anim_index
         /\ UNCHANGED <<start_pos, goal_pos, current_piece, running_bfs, path_found,
                        animating_path, queue, visited, parents, edges_explored,
                        current_node, shortest_path>>

\* handle_mouse_click whose last branch resets without asking whether the
\* search is running
handle_mouse_click_AnyTime(p) ==
    IF ~is_on_board(p) THEN UNCHANGED gridVars
    ELSE IF path_found \/ animating_path
    THEN reset_state /\ UNCHANGED current_piece
    ELSE IF start_pos = None
    THEN start_pos' = p
         /\ UNCHANGED <<goal_pos, current_piece, running_bfs, path_found,
                        animating_path, queue, visited, parents, edges_explored,
                        current_node, shortest_path, anim_index, anim_progress>>
    ELSE IF goal_pos = None /\ p # start_pos
    THEN goal_pos' = p
         /\ UNCHANGED <<start_pos, current_piece, running_bfs, path_found,
                        animating_path, queue, visited, parents, edges_explored,
                        current_node, shortest_path, anim_index, anim_progress>>
    ELSE reset_state /\ UNCHANGED current_piece

\* handle_mouse_click for a click that lands on square p
handle_mouse_click(p) ==
    IF ~is_on_board(p) THEN UNCHANGED gridVars
    ELSE IF path_found \/ animating_path
    THEN reset_state /\ UNCHANGED current_piece
    ELSE IF start_pos = None
    THEN start_pos' = p
         /\ UNCHANGED <<goal_pos, current_piece, running_bfs, path_found,
                        animating_path, queue, visited, parents, edges_explored,
                        current_node, shortest_path, anim_index, anim_progress>>
    ELSE IF goal_pos = None /\ p # start_pos
    THEN goal_pos' = p
         /\ UNCHANGED <<start_pos, current_piece, running_bfs, path_found,
                        animating_path, queue, visited, parents, edges_explored,
                        current_node, shortest_path, anim_index, anim_progress>>
    ELSE IF ~running_bfs
    THEN reset_state /\ UNCHANGED current_piece
    ELSE UNCHANGED gridVars

\* handle_key_press(K_SPACE)
KeySpacePress ==
    IF start_pos # None /\ goal_pos # None /\ ~running_bfs /\ ~path_found
    THEN start_bfs
    ELSE UNCHANGED gridVars

\* handle_key_press(K_r)
KeyRPress == reset_state /\ UNCHANGED current_piece

\* the piece key that sets current_piece and nothing else
KeyPiecePress_KeepRun(piece) ==
    /\ current_piece' = piece
    /\ UNCHANGED <<start_pos, goal_pos, running_bfs, path_found, animating_path,
                   queue, visited, parents, edges_explored, current_node,
                   shortest_path, anim_index, anim_progress>>

\* handle_key_press(K_1 + piece)
KeyPiecePress(piece) ==
    /\ current_piece' = piece
    /\ IF start_pos # None /\ goal_pos # None
       THEN ResetRun /\ UNCHANGED <<start_pos, goal_pos>>
       ELSE reset_state

\* the logic update of one pass of the loop of run
RunLogic ==
    IF running_bfs THEN step_bfs
    ELSE IF animating_path THEN update_animation
    ELSE UNCHANGED gridVars


\* ------------------------------------------------------------------------
\* tree_diameter.py
\* A Node object is its number in order of creation (1, 2, ...); its fields
\* are Neighbours[n], Visited[n] and Distance[n], kept for as long as the
\* object is referenced, that is also after it left the list nodes. None,
\* for a reference to a node, is NoNode. The globals nodes and edges are the
\* two lists that lines 45 and 46 name, empty at the start; pos is display
\* data: a click is modelled by the node it hits.
\* ------------------------------------------------------------------------
NoNode == 0

Range(s) == {s[i] : i \in 1 .. Len(s)}

TreeIdle ==
    /\ nodes = << >>
    /\ edges = << >>
    /\ Neighbours = << >>
    /\ Visited = << >>
    /\ Distance = << >>
    /\ selected_node = NoNode
    /\ long_start = NoNode
    /\ long_end = NoNode
    /\ pc = "idle"
    /\ qeue = << >>
    /\ far_node = NoNode
    /\ bfs_start = NoNode
    /\ fd_seed = NoNode
    /\ fd_start = NoNode
    /\ fd_ret = << >>

\* Edge.other_end: the other endpoint, or NoNode for its False
other_end(edge, node) ==
    IF node = edge[2] THEN edge[1]
    ELSE IF node = edge[1] THEN edge[2]
    ELSE NoNode

\* reset_nodes(nodes) leaving the field Visited of every node as it was
ResetVisited_Kept(ns, vis) == vis

\* reset_nodes that leaves Distance as it is
ResetDistance_Kept(ns, dist) == dist

\* reset_nodes(nodes): the fields Visited and Distance after it
ResetVisited(ns, vis) == [n \in DOMAIN vis |-> IF n \in Range(ns) THEN FALSE ELSE vis[n]]
ResetDistance(ns, dist) == [n \in DOMAIN dist |-> IF n \in Range(ns) THEN 0 ELSE dist[n]]

\* the for loop of bfs with >= for > in the comparison of the distances
RECURSIVE NeighbourLoop_Ties(_, _, _, _, _)
NeighbourLoop_Ties(nbs, i, corrent, start, st) ==
    IF i > Len(nbs) THEN st
    ELSE LET node == nbs[i]
             q1 == Append(st.qeue, node)
         IN IF st.dist[node] = 0 /\ node # start
            THEN LET d1 == [st.dist EXCEPT ![node] = st.dist[corrent] + 1]
                     f1 == IF d1[node] >= d1[st.far] THEN node ELSE st.far
                 IN NeighbourLoop_Ties(nbs, i + 1, corrent, start,
                                       [qeue |-> q1, dist |-> d1, far |-> f1])
            ELSE NeighbourLoop_Ties(nbs, i + 1, corrent, start,
                                    [qeue |-> q1, dist |-> st.dist, far |-> st.far])

\* the for loop of bfs with the comparison of the distances turned round
RECURSIVE NeighbourLoop_Less(_, _, _, _, _)
NeighbourLoop_Less(nbs, i, corrent, start, st) ==
    IF i > Len(nbs) THEN st
    ELSE LET node == nbs[i]
             q1 == Append(st.qeue, node)
         IN IF st.dist[node] = 0 /\ node # start
            THEN LET d1 == [st.dist EXCEPT ![node] = st.dist[corrent] + 1]
                     f1 == IF d1[node] < d1[st.far] THEN node ELSE st.far
                 IN NeighbourLoop_Less(nbs, i + 1, corrent, start,
                                       [qeue |-> q1, dist |-> d1, far |-> f1])
            ELSE NeighbourLoop_Less(nbs, i + 1, corrent, start,
                                    [qeue |-> q1, dist |-> st.dist, far |-> st.far])

\* the for loop of bfs over corrent_node.Neighbours[i ..]; st holds the
\* deque, the Distance fields and far_node
RECURSIVE NeighbourLoop(_, _, _, _, _)
NeighbourLoop(nbs, i, corrent, start, st) ==
    IF i > Len(nbs) THEN st
    ELSE LET node == nbs[i]
             q1 == Append(st.qeue, node)
         IN IF st.dist[node] = 0 /\ node # start
            THEN LET d1 == [st.dist EXCEPT ![node] = st.dist[corrent] + 1]
                     f1 == IF d1[node] > d1[st.far] THEN node ELSE st.far
                 IN NeighbourLoop(nbs, i + 1, corrent, start,
                                  [qeue |-> q1, dist |-> d1, far |-> f1])
            ELSE NeighbourLoop(nbs, i + 1, corrent, start,
                               [qeue |-> q1, dist |-> st.dist, far |-> st.far])

\* the two selected nodes joined by the right click: the Neighbours fields after it
Connect(nb, a, b) == [nb EXCEPT ![a] = Append(@, b), ![b] = Append(@, a)]

\* ---- the event handlers of main, which runs them only between two runs of
\* find_diameter
MaxNodes == 3
MaxEdges == 2
MaxDeletes == 1

RECURSIVE SumLen(_, _)
SumLen(nb, i) == IF i > Len(nb) THEN 0 ELSE Len(nb[i]) + SumLen(nb, i + 1)

\* the edges added so far: the Neighbours lists only grow, by one entry at
\* each end of a new edge
EdgesAdded == SumLen(Neighbours, 1) \div 2

\* MOUSEBUTTONDOWN, button 1, where get_node_at_pos finds no node
LeftClick ==
    /\ pc = "idle"
    /\ Len(Neighbours) < MaxNodes
    /\ nodes' = Append(nodes, Len(Neighbours) + 1)
    /\ Neighbours' = Append(Neighbours, << >>)
    /\ Visited' = Append(Visited, FALSE)
    /\ Distance' = Append(Distance, 0)
    /\ UNCHANGED <<edges, selected_node, long_start, long_end, pc, qeue, far_node,
                   bfs_start, fd_seed, fd_start, fd_ret>>

\* the right click without its test for a duplicate or a self-loop
right_click_NoCheck(clicked) ==
    IF selected_node = NoNode
    THEN /\ selected_node' = clicked
         /\ UNCHANGED <<Neighbours, edges>>
    ELSE /\ Neighbours' = Connect(Neighbours, selected_node, clicked)
         /\ edges' = Append(edges, <<selected_node, clicked>>)
         /\ selected_node' = NoNode

\* MOUSEBUTTONDOWN, button 3, where get_node_at_pos finds clicked
right_click(clicked) ==
    IF selected_node = NoNode
    THEN /\ selected_node' = clicked
         /\ UNCHANGED <<Neighbours, edges>>
    ELSE /\ IF clicked \notin Range(Neighbours[selected_node]) /\ selected_node # clicked
            THEN /\ Neighbours' = Connect(Neighbours, selected_node, clicked)
                 /\ edges' = Append(edges, <<selected_node, clicked>>)
            ELSE UNCHANGED <<Neighbours, edges>>
         /\ selected_node' = NoNode

RightClick ==
    /\ pc = "idle"
    /\ \E clicked \in Range(nodes) : right_click(clicked)
    /\ Len(edges') > Len(edges) => EdgesAdded < MaxEdges
    /\ UNCHANGED <<nodes, Visited, Distance, long_start, long_end, pc, qeue,
                   far_node, bfs_start, fd_seed, fd_start, fd_ret>>

\* KEYDOWN, K_DELETE
delete_selected ==
    IF selected_node # NoNode
    THEN /\ edges' = SelectSeq(edges, LAMBDA edge : other_end(edge, selected_node) = NoNode)
         /\ nodes' = SelectSeq(nodes, LAMBDA n : n # selected_node)
         /\ selected_node' = NoNode
    ELSE UNCHANGED <<edges, nodes, selected_node>>

DeleteKey ==
    /\ pc = "idle"
    /\ Len(Neighbours) - Len(nodes) < MaxDeletes
    /\ delete_selected
    /\ UNCHANGED <<Neighbours, Visited, Distance, long_start, long_end, pc, qeue,
                   far_node, bfs_start, fd_seed, fd_start, fd_ret>>

\* KEYDOWN, K_r
RKey ==
    /\ pc = "idle"
    /\ long_end' = NoNode
    /\ long_start' = NoNode
    /\ Visited' = ResetVisited(nodes, Visited)
    /\ Distance' = ResetDistance(nodes, Distance)
    /\ UNCHANGED <<nodes, edges, Neighbours, selected_node, pc, qeue, far_node,
                   bfs_start, fd_seed, fd_start, fd_ret>>

\* bfs with far_node started at the first node of the list, not at start
SpaceKey_FarFirst ==
    /\ pc = "idle"
    /\ selected_node # NoNode
    /\ fd_seed' = selected_node
    /\ Visited' = ResetVisited(nodes, Visited)
    /\ Distance' = ResetDistance(nodes, Distance)
    /\ bfs_start' = selected_node
    /\ qeue' = <<selected_node>>
    /\ far_node' = nodes[1]
    /\ pc' = "pass1"
    /\ UNCHANGED <<nodes, edges, Neighbours, selected_node, long_start, long_end,
                   fd_start, fd_ret>>

\* KEYDOWN, K_SPACE: find_diameter(draw, selected_node) up to the first pass
\* of the loop of bfs(draw, selected_node)
SpaceKey ==
    /\ pc = "idle"
    /\ selected_node # NoNode
    /\ fd_seed' = selected_node
    /\ Visited' = ResetVisited(nodes, Visited)
    /\ Distance' = ResetDistance(nodes, Distance)
    /\ bfs_start' = selected_node
    /\ qeue' = <<selected_node>>
    /\ far_node' = selected_node
    /\ pc' = "pass1"
    /\ UNCHANGED <<nodes, edges, Neighbours, selected_node, long_start, long_end,
                   fd_start, fd_ret>>

\* one pass of the while loop of bfs that never sets Visited
bfs_iteration_NoMark ==
    LET corrent_node == Head(qeue) IN
    IF Visited[corrent_node]
    THEN /\ qeue' = Tail(qeue)
         /\ UNCHANGED <<Distance, far_node, Visited, selected_node>>
    ELSE LET st == NeighbourLoop(Neighbours[corrent_node], 1, corrent_node, bfs_start,
                                 [qeue |-> qeue, dist |-> Distance, far |-> far_node])
         IN /\ Distance' = st.dist
            /\ far_node' = st.far
            /\ Visited' = Visited
            /\ selected_node' = corrent_node
            /\ qeue' = Tail(st.qeue)

\* one pass of the while loop of bfs
bfs_iteration ==
    LET corrent_node == Head(qeue) IN
    IF Visited[corrent_node]
    THEN /\ qeue' = Tail(qeue)
         /\ UNCHANGED <<Distance, far_node, Visited, selected_node>>
    ELSE LET st == NeighbourLoop(Neighbours[corrent_node], 1, corrent_node, bfs_start,
                                 [qeue |-> qeue, dist |-> Distance, far |-> far_node])
         IN /\ Distance' = st.dist
            /\ far_node' = st.far
            /\ Visited' = [Visited EXCEPT ![corrent_node] = TRUE]
            /\ selected_node' = corrent_node
            /\ qeue' = Tail(st.qeue)

BfsIter ==
    /\ pc \in {"pass1", "pass2"}
    /\ qeue # << >>
    /\ bfs_iteration
    /\ UNCHANGED <<nodes, edges, Neighbours, long_start, long_end, pc, bfs_start,
                   fd_seed, fd_start, fd_ret>>

\* bfs returns far_node: to find_diameter, which runs the second bfs from it
\* or returns (start, end)
BfsReturn ==
    /\ pc \in {"pass1", "pass2"}
    /\ qeue = << >>
    /\ IF pc = "pass1"
       THEN /\ fd_start' = far_node
            /\ Visited' = ResetVisited(nodes, Visited)
            /\ Distance' = ResetDistance(nodes, Distance)
            /\ bfs_start' = far_node
            /\ qeue' = <<far_node>>
            /\ far_node' = far_node
            /\ pc' = "pass2"
            /\ UNCHANGED fd_ret
       ELSE /\ fd_ret' = <<fd_start, far_node>>
            /\ pc' = "done"
            /\ UNCHANGED <<fd_start, Visited, Distance, bfs_start, qeue, far_node>>
    /\ UNCHANGED <<nodes, edges, Neighbours, selected_node, long_start, long_end, fd_seed>>

\* find_diameter has returned: the rest of the K_SPACE handler
FindDone ==
    /\ pc = "done"
    /\ long_start' = fd_ret[1]
    /\ long_end' = fd_ret[2]
    /\ selected_node' = NoNode
    /\ pc' = "idle"
    /\ qeue' = << >>
    /\ far_node' = NoNode
    /\ bfs_start' = NoNode
    /\ fd_seed' = NoNode
    /\ fd_start' = NoNode
    /\ fd_ret' = << >>
    /\ UNCHANGED <<nodes, edges, Neighbours, Visited, Distance>>

\* no method of BFSVisualizer raises, and none of its statements can fail:
\* every call ends with no exception
NoError == "none"

\* ---- the actions of the run loop
\* the squares the model's clicks land on: the corner x + y <= MaxClick
MaxClick == 2
ClickSquares == {p \in Squares : p[1] + p[2] <= MaxClick}

Returns == exc' = NoError /\ UNCHANGED <<treeVars, passlog>>

MouseClick ==
    /\ \E p \in ClickSquares : handle_mouse_click(p)
    /\ Returns /\ UNCHANGED obsVars

KeySpace == KeySpacePress /\ Returns /\ UNCHANGED obsVars

KeyR == KeyRPress /\ Returns /\ UNCHANGED obsVars

KeyPiece ==
    /\ \E piece \in PieceType : KeyPiecePress(piece)
    /\ Returns /\ UNCHANGED obsVars

Tick == RunLogic /\ Returns /\ UNCHANGED obsVars

NoProbe == [steps |-> -1]

\* passlog, while bfs runs, holds what an observer of the pass has counted:
\* pushes, the insertions into the deque; expanded, the nodes whose
\* neighbours were appended, in order; found, the nodes that were given a
\* Distance, in order
NoLog == [pushes |-> 0, expanded |-> << >>, found |-> << >>]

Unobserved == steps = 0 /\ probe = NoProbe /\ passlog = NoLog

Init == GridInit /\ exc = NoError /\ Unobserved /\ TreeIdle

Next ==
    \/ MouseClick
    \/ KeySpace
    \/ KeyR
    \/ KeyPiece
    \/ Tick

Spec == Init /\ [][Next]_vars

\* ---- the search alone, over every piece and every pair of squares: the state
\* after the piece key and the two clicks, then SPACE and the passes of the run
\* loop while the search runs
SearchInit ==
    /\ current_piece \in PieceType
    /\ start_pos \in Squares
    /\ goal_pos \in Squares \ {start_pos}
    /\ running_bfs = FALSE
    /\ path_found = FALSE
    /\ animating_path = FALSE
    /\ queue = << >>
    /\ visited = {}
    /\ parents = << >>
    /\ edges_explored = << >>
    /\ current_node = None
    /\ shortest_path = << >>
    /\ anim_index = 0
    /\ anim_progress = 0
    /\ exc = NoError /\ Unobserved /\ TreeIdle

SearchTick == running_bfs /\ Tick

SearchNext ==
    \/ KeySpace
    \/ SearchTick

SpecSearch == SearchInit /\ [][SearchNext]_vars

\* the searches that start in the corner (0,0)
CornerInit == SearchInit /\ start_pos = <<0, 0>>

SpecCorner == CornerInit /\ [][SearchNext]_vars

\* ---- the methods of BFSVisualizer called by a driver of its own choosing
CallStartBfs == start_bfs /\ Returns /\ UNCHANGED obsVars

CallStepBfs == step_bfs /\ Returns /\ UNCHANGED obsVars

CallReconstructPath ==
    /\ shortest_path' = reconstruct_path(parents, start_pos, goal_pos)
    /\ UNCHANGED <<start_pos, goal_pos, current_piece, running_bfs, path_found,
                   animating_path, queue, visited, parents, edges_explored,
                   current_node, anim_index, anim_progress>>
    /\ Returns /\ UNCHANGED obsVars

ApiNext ==
    \/ MouseClick
    \/ KeySpace
    \/ KeyR
    \/ KeyPiece
    \/ CallStartBfs
    \/ CallStepBfs
    \/ CallReconstructPath

SpecApi == Init /\ [][ApiNext]_vars

\* ---- two runs compared: steps counts the step_bfs calls since the last
\* start_bfs, and probe is a snapshot an observer took of an earlier moment; it
\* is dropped as soon as the squares or the piece differ from its own
Snapshot ==
    [steps |-> steps, piece |-> current_piece, start |-> start_pos, goal |-> goal_pos,
     visited |-> visited, parents |-> parents, edges |-> edges_explored, old |-> FALSE]

\* the probe after an action; it is old once a later search has been started
KeepProbe ==
    probe' = IF \/ probe = NoProbe
                \/ probe.piece # current_piece'
                \/ (start_pos' # None /\ probe.start # start_pos')
                \/ (goal_pos' # None /\ probe.goal # goal_pos')
             THEN NoProbe
             ELSE IF running_bfs' /\ ~running_bfs THEN [probe EXCEPT !.old = TRUE]
             ELSE probe

\* the observed searches are between the squares of the clicks' first row
DetSquares == {p \in ClickSquares : p[2] = 0}

DetMouseClick ==
    /\ \E p \in DetSquares : handle_mouse_click(p)
    /\ steps' = IF visited' = {} THEN 0 ELSE steps
    /\ KeepProbe /\ Returns

DetKeySpace ==
    /\ KeySpacePress
    /\ steps' = IF running_bfs' /\ ~running_bfs THEN 0 ELSE steps
    /\ KeepProbe /\ Returns

DetKeyR == KeyRPress /\ steps' = 0 /\ KeepProbe /\ Returns

DetKeyPiece ==
    /\ \E piece \in PieceType : KeyPiecePress(piece)
    /\ steps' = 0
    /\ KeepProbe /\ Returns

DetTick ==
    /\ running_bfs
    /\ RunLogic
    /\ steps' = steps + 1
    /\ KeepProbe /\ Returns

TakeProbe ==
    /\ visited # {}
    /\ probe' = Snapshot
    /\ UNCHANGED <<gridVars, exc, steps, treeVars, passlog>>

DetNext ==
    \/ DetMouseClick
    \/ DetKeySpace
    \/ DetKeyR
    \/ DetKeyPiece
    \/ DetTick
    \/ TakeProbe

SpecDet == Init /\ [][DetNext]_vars

\* ---- the run loop with its last event on record: probe holds the event that
\* was handled last, whether the search was running when it came, and the
\* fields of the BFSVisualizer as they were before it
Noted(event) ==
    /\ probe' = [event |-> event, running |-> running_bfs, before |-> gridVars]
    /\ UNCHANGED steps

EvMouseClick ==
    /\ \E p \in ClickSquares : handle_mouse_click(p)
    /\ Noted("click") /\ Returns

EvKeySpace == KeySpacePress /\ Noted("space") /\ Returns

EvKeyR == KeyRPress /\ Noted("reset") /\ Returns

EvKeyPiece ==
    /\ \E piece \in PieceType : KeyPiecePress(piece)
    /\ Noted("piece") /\ Returns

EvTick == RunLogic /\ Noted("frame") /\ Returns

EvNext ==
    \/ EvMouseClick
    \/ EvKeySpace
    \/ EvKeyR
    \/ EvKeyPiece
    \/ EvTick

SpecEvents == Init /\ [][EvNext]_vars

\* ---- the graph editor and the diameter runs
GridIdle == GridInit /\ exc = NoError /\ Unobserved

GridStays == UNCHANGED <<gridVars, exc, obsVars>>

\* the log of a pass that begins: deque([start]) is its first insertion
FirstLog == [pushes |-> 1, expanded |-> << >>, found |-> << >>]

\* the log after one pass of the while loop: the loop takes one node from the
\* deque, so the deque grew by the insertions less one; the head was expanded
\* if it became Visited; the nodes found are the neighbours of the head whose
\* Distance changed, in the order of its Neighbours
LogIter ==
    LET corrent_node == Head(qeue) IN
    passlog' =
        [pushes   |-> passlog.pushes + (Len(qeue') + 1 - Len(qeue)),
         expanded |-> IF Visited'[corrent_node] /\ ~Visited[corrent_node]
                      THEN Append(passlog.expanded, corrent_node)
                      ELSE passlog.expanded,
         found    |-> passlog.found \o
                      SelectSeq(Neighbours[corrent_node],
                                LAMBDA n : Distance'[n] # Distance[n])]

AddNode == LeftClick /\ GridStays /\ UNCHANGED passlog
ClickNode == RightClick /\ GridStays /\ UNCHANGED passlog
DeleteNode == DeleteKey /\ GridStays /\ UNCHANGED passlog
ResetKey == RKey /\ GridStays /\ UNCHANGED passlog
\* SPACE is pressed when no result is on display (after R, or before any run):
\* find_diameter resets the fields of every listed node before it reads one, so
\* what an earlier run left in them and in long_start, long_end is not read
StartDiameter ==
    /\ long_start = NoNode /\ long_end = NoNode
    /\ SpaceKey /\ GridStays
    /\ passlog' = FirstLog
BfsStep == BfsIter /\ GridStays /\ LogIter
BfsEnd ==
    /\ BfsReturn /\ GridStays
    /\ passlog' = IF pc' = "pass2" THEN FirstLog ELSE passlog
EndDiameter == FindDone /\ GridStays /\ passlog' = NoLog

GraphInit == GridIdle /\ TreeIdle

GraphNext ==
    \/ AddNode
    \/ ClickNode
    \/ DeleteNode
    \/ ResetKey
    \/ StartDiameter
    \/ BfsStep
    \/ BfsEnd
    \/ EndDiameter

SpecGraph == GraphInit /\ [][GraphNext]_vars

\* ---- one run of find_diameter on a tree drawn beforehand: the n nodes are
\* added, then joined by the edges es in that order (each edge selected from
\* its lower-numbered end), then the seed is selected
TreeNodes == 4
StarNodes == 5

NodePairs(n) == {e \in (1 .. n) \X (1 .. n) : e[1] < e[2]}

Ends(e) == {e[1], e[2]}

RECURSIVE Component(_, _)
Component(es, S) ==
    LET T == S \cup UNION {Ends(e) : e \in {x \in Range(es) : Ends(x) \cap S # {}}}
    IN IF T = S THEN S ELSE Component(es, T)

IsTreeOn(n, es) ==
    /\ Len(es) = n - 1
    /\ \A i, j \in 1 .. Len(es) : i # j => Ends(es[i]) # Ends(es[j])
    /\ \A e \in Range(es) : e[1] # e[2]
    /\ Component(es, {1}) = 1 .. n

TreeSeqs(n) == {es \in [1 .. n - 1 -> NodePairs(n)] : IsTreeOn(n, es)}

\* the trees all of whose edges meet in one node c
StarSeqs(n) ==
    UNION {{es \in [1 .. n - 1 -> {e \in NodePairs(n) : c \in Ends(e)}] : IsTreeOn(n, es)}
           : c \in 1 .. n}

RECURSIVE ConnectAll(_, _, _)
ConnectAll(nb, es, i) ==
    IF i > Len(es) THEN nb
    ELSE ConnectAll(Connect(nb, es[i][1], es[i][2]), es, i + 1)

Drawn(n, es, seed) ==
    /\ nodes = [i \in 1 .. n |-> i]
    /\ edges = es
    /\ Neighbours = ConnectAll([i \in 1 .. n |-> << >>], es, 1)
    /\ Visited = [i \in 1 .. n |-> FALSE]
    /\ Distance = [i \in 1 .. n |-> 0]
    /\ selected_node = seed
    /\ long_start = NoNode
    /\ long_end = NoNode
    /\ pc = "idle"
    /\ qeue = << >>
    /\ far_node = NoNode
    /\ bfs_start = NoNode
    /\ fd_seed = NoNode
    /\ fd_start = NoNode
    /\ fd_ret = << >>

TreeInit ==
    /\ GridIdle
    /\ \E n \in 1 .. TreeNodes : \E es \in TreeSeqs(n) : \E seed \in 1 .. n :
           Drawn(n, es, seed)

StarInit ==
    /\ GridIdle
    /\ \E es \in StarSeqs(StarNodes) : \E seed \in 1 .. StarNodes :
           Drawn(StarNodes, es, seed)

RunNext ==
    \/ StartDiameter
    \/ BfsStep
    \/ BfsEnd
    \/ EndDiameter

SpecTree == TreeInit /\ [][RunNext]_vars

SpecStar == StarInit /\ [][RunNext]_vars

\* ---- one run of find_diameter on any graph drawn beforehand without a
\* deletion, cycles and several components included: up to CycNodes nodes
\* joined by up to CycEdges edges, no pair of nodes twice (the right click
\* refuses it). Once SPACE is handled, find_diameter and the loop of bfs run
\* on without waiting for anything: a pass that can take a step takes it.
CycNodes == 3
CycEdges == 3

GraphSeqs(n) ==
    UNION {{es \in [1 .. k -> NodePairs(n)] :
               \A i, j \in 1 .. k : i # j => es[i] # es[j]}
           : k \in 0 .. CycEdges}

CycInit ==
    /\ GridIdle
    /\ \E n \in 1 .. CycNodes : \E es \in GraphSeqs(n) : \E seed \in 1 .. n :
           Drawn(n, es, seed)

SpecCyc ==
    /\ CycInit /\ [][RunNext]_vars
    /\ WF_vars(BfsStep) /\ WF_vars(BfsEnd)

\* ---- one run of find_diameter on any connected graph drawn beforehand
\* without a deletion: up to DenseNodes nodes, created in any order, joined by
\* any set of up to DenseEdges edges, each edge drawn from its older end and
\* the edges of an older node before those of a younger one; any seed
DenseNodes == 4
DenseEdges == 6

\* the edges of a set in the order they are drawn in
RECURSIVE InOrder(_)
InOrder(E) ==
    IF E = {} THEN << >>
    ELSE LET first == CHOOSE e \in E : \A f \in E :
                          e[1] < f[1] \/ (e[1] = f[1] /\ e[2] <= f[2])
         IN <<first>> \o InOrder(E \ {first})

ConnectedSeqs(n) ==
    {InOrder(E) : E \in {F \in SUBSET NodePairs(n) :
                             /\ Cardinality(F) <= DenseEdges
                             /\ Component(InOrder(F), {1}) = 1 .. n}}

DenseInit ==
    /\ GridIdle
    /\ \E n \in 1 .. DenseNodes : \E es \in ConnectedSeqs(n) : \E seed \in 1 .. n :
           Drawn(n, es, seed)

SpecDense == DenseInit /\ [][RunNext]_vars

\* ------------------------------------------------------------------------
\* Reference notions the claims are stated with: the moves of chess on an
\* empty board, and distances counted level by level
\* ------------------------------------------------------------------------
Abs(x) == IF x < 0 THEN -x ELSE x

LegalMove(piece, a, b) ==
    LET dx == Abs(a[1] - b[1])
        dy == Abs(a[2] - b[2])
    IN CASE piece = KNIGHT -> {dx, dy} = {1, 2}
         [] piece = KING   -> dx <= 1 /\ dy <= 1 /\ a # b
         [] piece = ROOK   -> (dx = 0) # (dy = 0)
         [] piece = BISHOP -> dx = dy /\ dx > 0
         [] piece = QUEEN  -> ((dx = 0) # (dy = 0)) \/ (dx = dy /\ dx > 0)

LegalTargets ==
    Table([piece \in PieceType |->
              Table([a \in Squares |-> {b \in Squares : LegalMove(piece, a, b)}])])

\* the squares at d, d + 1, ... moves, as a function from square to moves
RECURSIVE Levels(_, _, _, _)
Levels(piece, frontier, seen, d) ==
    IF frontier = {} THEN << >>
    ELSE LET next == UNION {LegalTargets[piece][q] : q \in frontier} \ seen
         IN [g \in frontier |-> d] @@ Levels(piece, next, seen \cup next, d + 1)

MinMoves ==
    Table([piece \in PieceType |-> Table([a \in Squares |-> Levels(piece, {a}, {a}, 0)])])

Reachable(piece, a, b) == b \in DOMAIN MinMoves[piece][a]

\* the hops between two nodes of the drawn graph, along the edges of the list
\* edges (-1 when there is no path)
NodesNextTo(S) ==
    UNION {Ends(e) : e \in {x \in Range(edges) : Ends(x) \cap S # {}}}

RECURSIVE Hops(_, _, _, _)
Hops(frontier, seen, b, d) ==
    IF b \in frontier THEN d
    ELSE IF frontier = {} THEN -1
    ELSE LET next == NodesNextTo(frontier) \ seen
         IN Hops(next, seen \cup next, b, d + 1)

TrueDist(a, b) == Hops({a}, {a}, b, 0)

Max(S) == CHOOSE x \in S : \A y \in S : y <= x

TrueDiameter == Max({TrueDist(a, b) : a, b \in Range(nodes)})

EdgesFormTree ==
    /\ Len(edges) = Len(nodes) - 1
    /\ \A a, b \in Range(nodes) : TrueDist(a, b) >= 0

\* the nodes that were created and are no longer in the list nodes
Deleted == (1 .. Len(Neighbours)) \ Range(nodes)

\* ------------------------------------------------------------------------
\* The claims
\* ------------------------------------------------------------------------

\* C1: when the search reaches the goal, shortest_path starts at start_pos,
\* ends at goal_pos, moves by one legal move of the piece at a time, and has
\* as many moves as the least number of moves from start to goal.
C1_ShortestPath ==
    path_found =>
        /\ shortest_path # << >>
        /\ shortest_path[1] = start_pos
        /\ shortest_path[Len(shortest_path)] = goal_pos
        /\ \A i \in 1 .. Len(shortest_path) - 1 :
               LegalMove(current_piece, shortest_path[i], shortest_path[i + 1])
        /\ Reachable(current_piece, start_pos, goal_pos)
        /\ Len(shortest_path) - 1 = MinMoves[current_piece][start_pos][goal_pos]

C1_Witness ==
    /\ path_found
    /\ current_piece = KNIGHT
    /\ start_pos = <<0, 0>>
    /\ goal_pos = <<7, 7>>
    /\ Len(shortest_path) = 7

\* C2: on a tree drawn without deletions, from any seed, find_diameter returns
\* (A, B) with B.Distance equal to the greatest distance between two nodes of
\* the tree, and A and B are that far apart.
C2_TreeDiameter ==
    (pc = "done" /\ Deleted = {} /\ EdgesFormTree) =>
        /\ Distance[fd_ret[2]] = TrueDiameter
        /\ TrueDist(fd_ret[1], fd_ret[2]) = TrueDiameter

C2_Witness ==
    /\ pc = "done"
    /\ Deleted = {}
    /\ EdgesFormTree
    /\ Len(nodes) = TreeNodes
    /\ TrueDiameter = TreeNodes - 1
    /\ fd_seed \notin {fd_ret[1], fd_ret[2]}

\* C3 (as claimed): a call of step_bfs on a search that is not running ends
\* with InvalidStateError and leaves queue, visited, parents and
\* edges_explored as they were.
C3_StepRejected ==
    [][(CallStepBfs /\ ~running_bfs) =>
          /\ exc' = "InvalidStateError"
          /\ UNCHANGED <<queue, visited, parents, edges_explored>>]_vars

\* C4 (as claimed): a call of reconstruct_path for a goal that a search did
\* not discover (no key of parents) ends with UnreachablePathError and produces
\* no path.
C4_ReconstructRejected ==
    [][(CallReconstructPath /\ visited # {} /\ goal_pos # None
          /\ goal_pos \notin DOMAIN parents) =>
          /\ exc' = "UnreachablePathError"
          /\ shortest_path' = shortest_path]_vars

\* C5 (as claimed): once a node is removed with DELETE, no listed node has it
\* among its Neighbours, no edge of the list edges ends in it, and no later
\* run of find_diameter puts it in its deque or gives it a distance.
C5_DeletedNodeGone ==
    \A x \in Deleted :
        /\ \A n \in Range(nodes) : x \notin Range(Neighbours[n])
        /\ \A e \in Range(edges) : x \notin Ends(e)
        /\ x \notin Range(qeue)
        /\ pc # "idle" => x \notin {far_node, fd_start}

\* the search under way repeats the recorded one, step for step
SameRunAsProbe ==
    /\ probe # NoProbe
    /\ probe.old
    /\ probe.piece = current_piece
    /\ probe.start = start_pos
    /\ probe.goal = goal_pos
    /\ visited # {}
    /\ probe.steps = steps

\* C6: a search with the same squares and piece as an earlier one has, after
\* the same number of step_bfs calls, the same visited, parents and
\* edges_explored as the earlier one had.
C6_Deterministic ==
    SameRunAsProbe =>
        /\ visited = probe.visited
        /\ parents = probe.parents
        /\ edges_explored = probe.edges

C6_Witness ==
    /\ SameRunAsProbe
    /\ running_bfs
    /\ steps >= 3
    /\ Len(edges_explored) >= 8

\* C7: the knight's path from (0,0) has 2 squares to (1,2) and 4 squares to
\* (0,1).
C7_KnightPaths ==
    (path_found /\ current_piece = KNIGHT /\ start_pos = <<0, 0>>) =>
        /\ goal_pos = <<1, 2>> => Len(shortest_path) = 2
        /\ goal_pos = <<0, 1>> => Len(shortest_path) = 4

C7_Witness ==
    /\ path_found
    /\ current_piece = KNIGHT
    /\ start_pos = <<0, 0>>
    /\ goal_pos = <<0, 1>>
    /\ Len(shortest_path) = 4

InLine(a, b) == a[1] = b[1] \/ a[2] = b[2]

\* C8: the rook's path from (0,0) to (7,7) has 3 squares, the middle one in a
\* row or column of each corner.
C8_RookCorners ==
    (path_found /\ current_piece = ROOK /\ start_pos = <<0, 0>> /\ goal_pos = <<7, 7>>) =>
        /\ Len(shortest_path) = 3
        /\ InLine(shortest_path[2], <<0, 0>>)
        /\ InLine(shortest_path[2], <<7, 7>>)

C8_Witness ==
    /\ path_found
    /\ current_piece = ROOK
    /\ start_pos = <<0, 0>>
    /\ goal_pos = <<7, 7>>
    /\ shortest_path[2] \in {<<0, 7>>, <<7, 0>>}

IsStar ==
    /\ Deleted = {}
    /\ EdgesFormTree
    /\ Len(nodes) >= 5
    /\ \E c \in Range(nodes) : \A e \in Range(edges) : c \in Ends(e)

IsLeaf(n) == Len(Neighbours[n]) = 1

\* C9: on the star of 5 nodes, from any seed, find_diameter returns two
\* different leaves, and the second one's Distance is 2.
C9_StarDiameter ==
    (pc = "done" /\ IsStar) =>
        /\ fd_ret[1] # fd_ret[2]
        /\ IsLeaf(fd_ret[1])
        /\ IsLeaf(fd_ret[2])
        /\ Distance[fd_ret[2]] = 2

C9_Witness ==
    /\ pc = "done"
    /\ IsStar
    /\ IsLeaf(fd_seed)
    /\ fd_ret[1] # fd_seed

\* C10: from a seed with no neighbours, whatever other nodes there are,
\* find_diameter returns (seed, seed), and the Distance of the second is 0.
C10_LoneSeed ==
    (pc = "done" /\ Neighbours[fd_seed] = << >>) =>
        /\ fd_ret = <<fd_seed, fd_seed>>
        /\ Distance[fd_ret[2]] = 0

C10_Witness ==
    /\ pc = "done"
    /\ Neighbours[fd_seed] = << >>
    /\ Len(nodes) >= 2
    /\ edges # << >>

\* an attempt to join the selected node to clicked that the handler is to
\* refuse: clicked is the selected node or already one of its Neighbours
RefusedJoin(clicked) ==
    /\ selected_node # NoNode
    /\ clicked = selected_node \/ clicked \in Range(Neighbours[selected_node])

NoSelfLoop ==
    /\ \A n \in 1 .. Len(Neighbours) : n \notin Range(Neighbours[n])
    /\ \A e \in Range(edges) : e[1] # e[2]

NoDoubleEdge ==
    /\ \A i, j \in 1 .. Len(edges) : i # j => Ends(edges[i]) # Ends(edges[j])
    /\ \A n \in 1 .. Len(Neighbours) : \A i, j \in 1 .. Len(Neighbours[n]) :
           i # j => Neighbours[n][i] # Neighbours[n][j]

\* C11: in every state no node is its own neighbour and no two edges join the
\* same pair of nodes; and a right click with a node selected either leaves
\* every Neighbours list and the list edges as they were, or joins the
\* selected node to a node that is neither itself nor one of its Neighbours:
\* an attempt to join a node to itself or to a neighbour changes nothing.
C11_EdgeAddRefused ==
    /\ [](NoSelfLoop /\ NoDoubleEdge)
    /\ [][(ClickNode /\ selected_node # NoNode) =>
             \/ UNCHANGED <<Neighbours, edges>>
             \/ \E clicked \in Range(nodes) :
                    /\ ~RefusedJoin(clicked)
                    /\ edges' = Append(edges, <<selected_node, clicked>>)
                    /\ Neighbours' = Connect(Neighbours, selected_node, clicked)]_vars

\* the middle node of a path of three nodes is selected: whatever node the
\* next right click hits, the join is one to refuse
C11_Witness ==
    /\ Len(nodes) = 3
    /\ Len(edges) = 2
    /\ selected_node # NoNode
    /\ \A n \in Range(nodes) : RefusedJoin(n)

\* the list step_bfs gets from the move function of the piece for the square
\* it expands
MovesOfCurrent == MOVE_FUNCTIONS[current_piece][current_node]

\* C12: the list a move function returns for a square p of the board does not
\* hold p, holds only squares with both coordinates in 0 .. 7, and holds no
\* square twice; for every piece and every square that a search expands.
C12_MoveLists ==
    (current_node # None) =>
        /\ \A i \in 1 .. Len(MovesOfCurrent) :
               /\ MovesOfCurrent[i] # current_node
               /\ MovesOfCurrent[i][1] \in 0 .. 7
               /\ MovesOfCurrent[i][2] \in 0 .. 7
        /\ Cardinality(Range(MovesOfCurrent)) = Len(MovesOfCurrent)

\* the queen's moves from a corner square have been asked for: 21 squares
\* along the two edges and the diagonal
C12_Witness ==
    /\ running_bfs
    /\ current_piece = QUEEN
    /\ current_node = <<7, 0>>
    /\ Len(MovesOfCurrent) = 21
    /\ \A i \in 1 .. Len(MovesOfCurrent) : MovesOfCurrent[i] \in visited

\* C13 (as claimed): a step_bfs call that expands a square other than the
\* goal and leaves the queue empty has set running_bfs to false by the time it
\* returns.
C13_ExhaustedAtOnce ==
    [][(SearchTick /\ queue # << >> /\ Head(queue) # goal_pos /\ queue' = << >>) =>
          ~running_bfs']_vars

\* a search was started and is over: stepped until running_bfs is false
SearchOver == visited # {} /\ ~running_bfs

\* C14: a search that is over has path_found true exactly when the goal can be
\* reached from the start by moves of the piece; when it cannot, the search is
\* over with no error, path_found false, shortest_path empty and the goal not
\* in visited.
C14_Complete ==
    SearchOver =>
        /\ path_found <=> Reachable(current_piece, start_pos, goal_pos)
        /\ ~Reachable(current_piece, start_pos, goal_pos) =>
               /\ exc = NoError
               /\ ~path_found
               /\ shortest_path = << >>
               /\ goal_pos \notin visited

\* the bishop's search for a square of the other colour is over, after the 32
\* squares of its own colour
C14_Witness ==
    /\ SearchOver
    /\ current_piece = BISHOP
    /\ ~Reachable(current_piece, start_pos, goal_pos)
    /\ Cardinality(visited) = 32
    /\ queue = << >>

\* the squares appended to the queue since start_bfs, in order: the start,
\* then the target of each entry of edges_explored, which step_bfs appends
\* together with the square
EverQueued ==
    <<start_pos>> \o [i \in 1 .. Len(edges_explored) |-> edges_explored[i][2]]

\* the squares a step has appended to the queue
Appended == SubSeq(queue', Len(queue), Len(queue'))

\* C15: during a search no square has been appended to the queue twice, the
\* squares appended so far are exactly the squares of visited, every square in
\* the queue is in visited; and a step adds to visited exactly the squares it
\* appends to the queue, none of which was in visited, and none for the square
\* it takes from the queue.
C15_QueuedOnce ==
    /\ [](visited # {} =>
             /\ Cardinality(Range(EverQueued)) = Len(EverQueued)
             /\ Range(EverQueued) = visited
             /\ Range(queue) \subseteq visited)
    /\ [][(SearchTick /\ queue # << >>) =>
             /\ Range(Appended) \cap visited = {}
             /\ visited' = visited \cup Range(Appended)]_vars
    /\ [][(KeySpace /\ running_bfs') =>
             queue' = <<start_pos>> /\ visited' = {start_pos}]_vars

C15_Witness ==
    /\ running_bfs
    /\ current_node # None
    /\ Len(queue) >= 5
    /\ Cardinality(visited) >= 20
    /\ Cardinality(visited) > Len(queue) + 1

\* C16 (as claimed): during a pass of bfs the deque holds no node twice.
C16_DequeNoRepeat ==
    \A i, j \in 1 .. Len(qeue) : i # j => qeue[i] # qeue[j]

\* the squares from which the parent links lead to a square of R, R included;
\* Rest are the keys of parents not yet known to be among them
RECURSIVE LedFrom(_, _)
LedFrom(R, Rest) ==
    LET More == {v \in Rest : parents[v] \in R}
    IN IF More = {} THEN R ELSE LedFrom(R \cup More, Rest \ More)

LedTo(R) == LedFrom(R, DOMAIN parents \ R)

\* C17: during a search the keys of parents are the squares of visited, the
\* start has parent None, every other visited square has a visited parent one
\* legal move of the piece away from it, and the parent links lead from every
\* visited square to the start.
C17_ParentTree ==
    visited # {} =>
        /\ DOMAIN parents = visited
        /\ parents[start_pos] = None
        /\ \A v \in visited \ {start_pos} :
               /\ parents[v] \in visited
               /\ LegalMove(current_piece, parents[v], v)
        /\ LedTo({start_pos}) = visited

\* the knight has discovered the whole board: some square is six links away
\* from the start
C17_Witness ==
    /\ current_piece = KNIGHT
    /\ Cardinality(visited) = 64
    /\ LedTo({start_pos}) = visited
    /\ \E v \in visited :
           LET Up(x) == ParentsGet(parents, x)
           IN Up(Up(Up(Up(Up(v))))) \in visited \ {start_pos}

\* C19: a piece key (1 to 5) sets current_piece to a piece and clears the run:
\* queue, visited, parents, edges_explored and shortest_path empty,
\* running_bfs, path_found and animating_path false; it leaves start_pos and
\* goal_pos as they were when both are set, also while a search runs or after
\* a path was found, and clears both when goal_pos is not set.
C19_PieceChange ==
    [][KeyPiece =>
          /\ current_piece' \in PieceType
          /\ queue' = << >> /\ visited' = {} /\ parents' = << >>
          /\ edges_explored' = << >> /\ shortest_path' = << >>
          /\ ~running_bfs' /\ ~path_found' /\ ~animating_path'
          /\ (start_pos # None /\ goal_pos # None) =>
                 (start_pos' = start_pos /\ goal_pos' = goal_pos)
          /\ goal_pos = None => (start_pos' = None /\ goal_pos' = None)]_vars

\* a piece key has replaced the knight, and a search with the new piece is
\* under way with both squares set: the state in which the next piece key
\* finds a run to clear
C19_Witness ==
    /\ current_piece = QUEEN
    /\ running_bfs
    /\ start_pos # None /\ goal_pos # None
    /\ Cardinality(visited) >= 3
    /\ queue # << >>
    /\ edges_explored # << >>

\* a pass of bfs is under way; it is at the exit of its loop when the deque
\* is empty
InPass == pc \in {"pass1", "pass2"}
PassOver == InPass /\ qeue = << >>

\* the nodes the pass knows, in the order it came to know them: its start,
\* then the nodes it found
Seen == <<bfs_start>> \o passlog.found

\* the first node of Seen among those with the greatest Distance
FirstFarthest ==
    LET top == Max({Distance[Seen[i]] : i \in 1 .. Len(Seen)})
        at  == CHOOSE i \in 1 .. Len(Seen) :
                   /\ Distance[Seen[i]] = top
                   /\ \A j \in 1 .. i - 1 : Distance[Seen[j]] < top
    IN Seen[at]

\* C18: throughout a pass far_node is the node found first among the nodes
\* with the greatest Distance so far, and it is replaced only by a node whose
\* Distance is strictly greater; when the pass is over the nodes found are the
\* other nodes of the component of the start, each with its distance from the
\* start as its Distance, so that bfs returns the first found of the farthest
\* nodes, and the start itself when it found none.
C18_FirstFarthest ==
    /\ [](InPass => far_node = FirstFarthest)
    /\ [](PassOver =>
             /\ Range(Seen) = Component(edges, {bfs_start})
             /\ \A n \in Range(Seen) : Distance[n] = TrueDist(bfs_start, n)
             /\ passlog.found = << >> => far_node = bfs_start)
    /\ [][(BfsStep /\ far_node' # far_node) =>
             Distance'[far_node'] > Distance'[far_node]]_vars

\* a pass is over that found two nodes at the same, greatest distance, and
\* returns the one found first
C18_Witness ==
    /\ PassOver
    /\ \E i, j \in 1 .. Len(passlog.found) :
           /\ i < j
           /\ far_node = passlog.found[i]
           /\ Distance[passlog.found[j]] = Distance[far_node]

\* the edges that end in node n
Degree(n) == Cardinality({i \in 1 .. Len(edges) : n \in Ends(edges[i])})

RECURSIVE SumDegree(_)
SumDegree(S) ==
    IF S = {} THEN 0
    ELSE LET n == CHOOSE x \in S : TRUE IN Degree(n) + SumDegree(S \ {n})

\* C20: every pass of bfs comes to the exit of its loop, the deque empty;
\* during a pass no node is expanded twice, and the insertions into the deque
\* number at most one plus the sum of the degrees of the nodes in the
\* component of the start.
C20_PassTerminates ==
    /\ (pc = "pass1") ~> (pc = "pass1" /\ qeue = << >>)
    /\ (pc = "pass2") ~> (pc = "pass2" /\ qeue = << >>)
    /\ [](InPass =>
             /\ Cardinality(Range(passlog.expanded)) = Len(passlog.expanded)
             /\ passlog.pushes <= 1 + SumDegree(Component(edges, {bfs_start})))

\* the second pass over a triangle is over: three nodes expanded, seven
\* insertions
C20_Witness ==
    /\ pc = "pass2" /\ qeue = << >>
    /\ Len(nodes) = 3
    /\ Cardinality(Component(edges, {bfs_start})) = 3
    /\ Len(edges) = 3
    /\ Len(passlog.expanded) = 3
    /\ passlog.pushes = 7

\* every node of the list nodes can be reached from every other along edges
Connected == \A a, b \in Range(nodes) : TrueDist(a, b) >= 0

\* the greatest distance from a to a node of the graph
Eccentricity(a) == Max({TrueDist(a, b) : b \in Range(nodes)})

\* the value shown for the endpoints (A, B) is what the graph says of them
Truthful(A, B) ==
    /\ Distance[B] = TrueDist(A, B)
    /\ Distance[B] = Eccentricity(A)
    /\ Distance[B] <= TrueDiameter

\* C21: on a connected graph drawn without deletions, cycles allowed, from
\* any seed, find_diameter returns (A, B) with B.Distance equal to the true
\* distance between A and B and to the eccentricity of A, and never above the
\* diameter of the graph; the same holds of long_start and long_end once the
\* handler has stored them.
C21_CyclicDiameter ==
    (Deleted = {} /\ Connected) =>
        /\ pc = "done" => Truthful(fd_ret[1], fd_ret[2])
        /\ (pc = "idle" /\ long_end # NoNode) => Truthful(long_start, long_end)

\* a run is over on a graph with a cycle where the value stays below the
\* diameter: the first pass returned a node next to every other one
C21_Witness ==
    /\ pc = "done"
    /\ Deleted = {}
    /\ Connected
    /\ Len(edges) >= Len(nodes)
    /\ Distance[fd_ret[2]] = 1
    /\ TrueDiameter = 2

\* the event on record came while the search was running
CameWhileRunning == probe # NoProbe /\ probe.running

\* start_pos, goal_pos and current_piece, out of the fields on record
Topology(fields) == <<fields[1], fields[2], fields[3]>>

\* C22: while running_bfs is true, a click on a square of the board and a
\* press of SPACE leave every field of the BFSVisualizer as it was (a running
\* search has both squares set and neither path_found nor animating_path);
\* so the squares and the piece of a running search differ after an event
\* only when the event was the key R or a piece key.
C22_EventsWhileRunning ==
    /\ running_bfs =>
           start_pos # None /\ goal_pos # None /\ ~path_found /\ ~animating_path
    /\ (CameWhileRunning /\ probe.event \in {"click", "space"}) =>
           gridVars = probe.before
    /\ (CameWhileRunning /\ Topology(gridVars) # Topology(probe.before)) =>
           probe.event \in {"reset", "piece"}

\* a click came in the middle of a search, which goes on
C22_Witness ==
    /\ CameWhileRunning
    /\ probe.event = "click"
    /\ running_bfs
    /\ Cardinality(visited) >= 3
    /\ queue # << >>
    /\ current_node # None

====
